---------------------------- MODULE Spec2Model ----------------------------
(***************************************************************************)
(* A model of src/main.py: process_faults_file reads faults.csv, cleans    *)
(* the rows, aggregates them per fault key, and writes one worksheet per   *)
(* machine plus the Index, Unique Faults and Total Duration worksheets.    *)
(*                                                                         *)
(* Text is a sequence of one-character strings, so that re.sub, strip,     *)
(* slicing, concatenation and string comparison are computed and not       *)
(* assumed.  A literal the program only writes (a title, a header) is a    *)
(* one-element sequence holding the whole literal.                         *)
(***************************************************************************)
EXTENDS Integers, Sequences, FiniteSets, TLC

(***************************************************************************)
(* Bounds of the model.                                                    *)
(***************************************************************************)
\* Most rows of a faults.csv without the block of distinct-fault rows.
MaxTail == 2
\* Most rows that follow the block of distinct-fault rows of a long file.
MaxRankTail == 2

(***************************************************************************)
(* Constants of the program.                                               *)
(***************************************************************************)
\* sanitized[:25]
SheetNameLimit == 25
\* .head(10)
TopN == 10
\* to_excel(..., startrow=1, ...) of the duration table
DurationStartRow == 1
\* startrow = len(machine_df_duration) + 4
OccurGap == 4
\* worksheet.insert_image(20, 0, ...) and worksheet.insert_image(20, 10, ...)
ImageRow == 20
DurationImageCol == 0
OccurImageCol == 10
\* worksheet.set_zoom(50)
Zoom == 50

(***************************************************************************)
(* Characters and text.                                                    *)
(***************************************************************************)
Digits == <<"0", "1", "2", "3", "4", "5", "6", "7", "8", "9">>

\* ord(ch) for the characters that occur in compared or parsed text.
CharCode(ch) ==
    CASE ch = " " -> 32 [] ch = "(" -> 40 [] ch = ")" -> 41 [] ch = "-" -> 45
      [] ch = "/" -> 47 [] ch = "0" -> 48 [] ch = "1" -> 49 [] ch = "2" -> 50
      [] ch = "3" -> 51 [] ch = "4" -> 52 [] ch = "5" -> 53 [] ch = "6" -> 54
      [] ch = "7" -> 55 [] ch = "8" -> 56 [] ch = "9" -> 57 [] ch = ":" -> 58
      [] ch = "A" -> 65 [] ch = "B" -> 66 [] ch = "S" -> 83 [] ch = "U" -> 85
      [] ch = "a" -> 97 [] ch = "c" -> 99 [] ch = "d" -> 100 [] ch = "f" -> 102
      [] ch = "k" -> 107 [] ch = "n" -> 110 [] ch = "o" -> 111
      [] ch = "w" -> 119 [] ch = "x" -> 120

IsDigit(ch) == \E i \in 1..10 : Digits[i] = ch

\* Python's < on str: by code point, a proper prefix first.
RECURSIVE StrLess(_, _)
StrLess(s, t) ==
    IF t = <<>> THEN FALSE
    ELSE IF s = <<>> THEN TRUE
    ELSE IF Head(s) # Head(t) THEN CharCode(Head(s)) < CharCode(Head(t))
    ELSE StrLess(Tail(s), Tail(t))

\* str.lower() on the letters of the model's alphabet.
LowerChar(ch) == CASE ch = "A" -> "a" [] ch = "B" -> "b" [] ch = "S" -> "s"
                   [] ch = "U" -> "u" [] OTHER -> ch

Lower(s) == [i \in 1..Len(s) |-> LowerChar(s[i])]

\* A missing value (NaN) of a text or numeric column.
NaN == <<"NaN">>

\* The text pandas.read_csv reads as a missing value (of its default list).
NaValues == {<<>>, <<"N", "A">>}

ReadCell(c) == IF c \in NaValues THEN NaN ELSE c

Unknown == <<"U", "n", "k", "n", "o", "w", "n">>


(***************************************************************************)
(* RecordNormalizer: lines 68-84.                                          *)
(***************************************************************************)
DigitVal(ch) == CharCode(ch) - 48

RECURSIVE ParseDigits(_, _)
ParseDigits(s, acc) ==
    IF s = <<>> THEN acc ELSE ParseDigits(Tail(s), 10 * acc + DigitVal(Head(s)))

AllDigits(s) == Len(s) >= 1 /\ \A i \in 1..Len(s) : IsDigit(s[i])

\* A missing number.
NumNaN == <<>>

\* pd.to_numeric(cell, errors='coerce') on one cell: <<v>> for the number v,
\* NumNaN for a missing cell or text that is no number.
ToNumeric(c) ==
    IF c = NaN THEN NumNaN
    ELSE IF AllDigits(c) THEN <<ParseDigits(c, 0)>>
    ELSE IF Len(c) >= 2 /\ Head(c) = "-" /\ AllDigits(Tail(c))
         THEN <<0 - ParseDigits(Tail(c), 0)>>
    ELSE NumNaN

\* Series.astype(str) on one cell.  Before pandas 3 a missing value becomes
\* the text 'nan'; from pandas 3 on str is the string dtype and a missing
\* value stays missing.  keepNA says which pandas runs the program.
AsTypeStr(c, keepNA) ==
    IF c = NaN THEN (IF keepNA THEN NaN ELSE <<"n", "a", "n">>) ELSE c

\* Series.fillna(value) on one cell.
FillNa(c, value) == IF c = NaN THEN value ELSE c

\* .astype(str).fillna('Unknown')
StrColumn(c, keepNA) == FillNa(AsTypeStr(c, keepNA), Unknown)

\* df['D_MsgDesc'] + " (" + df['D_MsgCode'] + ")"
FaultDescription(desc, code) == desc \o <<" ", "(">> \o code \o <<")">>

\* The row labels dropna keeps: both numeric columns hold a number.
Retained(file) ==
    {i \in 1..Len(file) :
        /\ ToNumeric(ReadCell(file[i].T_TotalDuration)) # NumNaN
        /\ ToNumeric(ReadCell(file[i].T_TotalOccur)) # NumNaN}

NormalizeRow(r, i, keepNA) ==
    LET desc == StrColumn(ReadCell(r.D_MsgDesc), keepNA)
        code == StrColumn(ReadCell(r.D_MsgCode), keepNA)
    IN  [index |-> i,
         D_MachineName |-> StrColumn(ReadCell(r.D_MachineName), keepNA),
         D_StateDesc |-> StrColumn(ReadCell(r.D_StateDesc), keepNA),
         D_MsgCode |-> code,
         D_MsgDesc |-> desc,
         Fault_Description |-> FaultDescription(desc, code),
         T_TotalDuration |-> ToNumeric(ReadCell(r.T_TotalDuration))[1],
         T_TotalOccur |-> ToNumeric(ReadCell(r.T_TotalOccur))[1]]

\* A variant of NormalizeFrame that fills what is no number with 0 instead of
\* dropping the row.
NormalizeFrameFillZero(file, keepNA) ==
    [i \in 1..Len(file) |->
        LET desc == StrColumn(ReadCell(file[i].D_MsgDesc), keepNA)
            code == StrColumn(ReadCell(file[i].D_MsgCode), keepNA)
            num(c) == IF ToNumeric(ReadCell(c)) = NumNaN THEN 0
                      ELSE ToNumeric(ReadCell(c))[1]
        IN  [index |-> i,
             D_MachineName |-> StrColumn(ReadCell(file[i].D_MachineName), keepNA),
             D_StateDesc |-> StrColumn(ReadCell(file[i].D_StateDesc), keepNA),
             D_MsgCode |-> code,
             D_MsgDesc |-> desc,
             Fault_Description |-> FaultDescription(desc, code),
             T_TotalDuration |-> num(file[i].T_TotalDuration),
             T_TotalOccur |-> num(file[i].T_TotalOccur)]]

RECURSIVE NormalizeFrom(_, _, _)
NormalizeFrom(file, i, keepNA) ==
    IF i > Len(file) THEN <<>>
    ELSE (IF i \in Retained(file)
          THEN <<NormalizeRow(file[i], i, keepNA)>> ELSE <<>>)
         \o NormalizeFrom(file, i + 1, keepNA)

\* The data frame after lines 68-84; a row keeps its label (index).
NormalizeFrame(file, keepNA) == NormalizeFrom(file, 1, keepNA)

(***************************************************************************)
(* Aggregator: lines 86-101.                                               *)
(***************************************************************************)
\* The groupby columns of lines 88 and 92, in their order.
Key(r) == [D_MachineName |-> r.D_MachineName, D_StateDesc |-> r.D_StateDesc,
           D_MsgCode |-> r.D_MsgCode, D_MsgDesc |-> r.D_MsgDesc,
           Fault_Description |-> r.Fault_Description]

KeyTuple(k) == <<k.D_MachineName, k.D_StateDesc, k.D_MsgCode, k.D_MsgDesc,
                 k.Fault_Description>>

RECURSIVE TupleLess(_, _)
TupleLess(a, b) ==
    IF a = <<>> THEN FALSE
    ELSE IF Head(a) # Head(b) THEN StrLess(Head(a), Head(b))
    ELSE TupleLess(Tail(a), Tail(b))

\* groupby sorts its groups by key (sort=True is the default).
KeyLess(k1, k2) == TupleLess(KeyTuple(k1), KeyTuple(k2))

RECURSIVE SortKeys(_)
SortKeys(S) ==
    IF S = {} THEN <<>>
    ELSE LET m == CHOOSE x \in S : \A y \in S \ {x} : KeyLess(x, y)
         IN  <<m>> \o SortKeys(S \ {m})

RECURSIVE SortNames(_)
SortNames(S) ==
    IF S = {} THEN <<>>
    ELSE LET m == CHOOSE x \in S : \A y \in S \ {x} : StrLess(x, y)
         IN  <<m>> \o SortNames(S \ {m})

RECURSIVE SumColumn(_, _)
SumColumn(rows, col) ==
    IF rows = <<>> THEN 0 ELSE Head(rows)[col] + SumColumn(Tail(rows), col)

Range(s) == {s[i] : i \in 1..Len(s)}

\* Series.unique(): the values in order of first appearance.
RECURSIVE Unique(_, _)
Unique(s, seen) ==
    IF s = <<>> THEN <<>>
    ELSE IF Head(s) \in seen THEN Unique(Tail(s), seen)
    ELSE <<Head(s)>> \o Unique(Tail(s), seen \cup {Head(s)})

\* A variant of GroupSum with the groups in order of first appearance
\* (groupby(..., sort=False)).
GroupSumUnsorted(frame, col) ==
    LET keys == Unique([i \in 1..Len(frame) |-> Key(frame[i])], {})
        group(k) == SelectSeq(frame, LAMBDA r : Key(r) = k)
    IN  [j \in 1..Len(keys) |->
            keys[j] @@ (col :> SumColumn(group(keys[j]), col))]

\* df.groupby([...five columns...]).agg({col: 'sum'}).reset_index()
GroupSum(frame, col) ==
    LET keys == SortKeys({Key(frame[i]) : i \in 1..Len(frame)})
        group(k) == SelectSeq(frame, LAMBDA r : Key(r) = k)
    IN  [j \in 1..Len(keys) |->
            keys[j] @@ (col :> SumColumn(group(keys[j]), col))]

OfMachine(frame, machine) ==
    SelectSeq(frame, LAMBDA r : r.D_MachineName = machine)

\* df.groupby('D_MachineName').size().reset_index(name='Unique Faults')
UniqueFaultsPerStation(frame) ==
    LET names == SortNames({frame[i].D_MachineName : i \in 1..Len(frame)})
    IN  [j \in 1..Len(names) |->
            [D_MachineName |-> names[j]]
            @@ ("Unique Faults" :> Len(OfMachine(frame, names[j])))]

\* aggregated.groupby('D_MachineName')['T_TotalDuration'].sum().reset_index()
TotalDurationPerStation(aggregated) ==
    LET names ==
            SortNames({aggregated[i].D_MachineName : i \in 1..Len(aggregated)})
    IN  [j \in 1..Len(names) |->
            [D_MachineName |-> names[j],
             T_TotalDuration |->
                 SumColumn(OfMachine(aggregated, names[j]), "T_TotalDuration")]]

MachineColumn(frame) == [i \in 1..Len(frame) |-> frame[i].D_MachineName]

(***************************************************************************)
(* RankSelector: sort_values(by=..., ascending=False).head(10).            *)
(***************************************************************************)
Max(S) == CHOOSE x \in S : \A y \in S : y <= x

Min2(a, b) == IF a <= b THEN a ELSE b

Perms(S) ==
    {p \in [1..Cardinality(S) -> S] :
        \A i, j \in 1..Cardinality(S) : i # j => p[i] # p[j]}

\* A variant of SortValuesDesc that sorts ascending.
RECURSIVE SortValuesAsc(_, _)
SortValuesAsc(S, col) ==
    IF S = {} THEN {<<>>}
    ELSE LET mx == Max({r[col] : r \in S})
             top == {r \in S : r[col] = mx}
         IN  {q \o p : p \in Perms(top), q \in SortValuesAsc(S \ top, col)}

\* frame.sort_values(by=col, ascending=False) with the default kind,
\* quicksort, which is not a stable sort: rows of equal value may come out in
\* any order.  The set of the orders the call can produce, S being the rows.
RECURSIVE SortValuesDesc(_, _)
SortValuesDesc(S, col) ==
    IF S = {} THEN {<<>>}
    ELSE LET mx == Max({r[col] : r \in S})
             top == {r \in S : r[col] = mx}
         IN  {p \o q : p \in Perms(top), q \in SortValuesDesc(S \ top, col)}

\* s[:n]
Prefix(s, n) == SubSeq(s, 1, Min2(n, Len(s)))

\* A variant of HeadRows that stops one row early.
HeadRowsShort(s, n) == Prefix(s, n - 1)

\* DataFrame.head(n)
HeadRows(s, n) == Prefix(s, n)

\* A variant of TopRows that takes the first ten rows before sorting them.
TopRowsHeadFirst(aggregated, machine, col) ==
    SortValuesDesc(Range(HeadRows(OfMachine(aggregated, machine), TopN)), col)

\* What lines 115-120 can assign to machine_df_duration (col the duration)
\* or machine_df_occurrences (col the occurrences).
TopRows(aggregated, machine, col) ==
    {HeadRows(s, TopN) :
        s \in SortValuesDesc(Range(OfMachine(aggregated, machine)), col)}

(***************************************************************************)
(* sanitize_sheet_name: lines 13-23.                                       *)
(***************************************************************************)
\* The character class [\\/*?[\]:] of line 22.
InvalidChars == {"\\", "/", "*", "?", "[", "]", ":"}

Whitespace == {" ", "\t", "\n", "\r"}

\* re.sub(r'[\\/*?[\]:]', '', name)
RemoveInvalid(name) == SelectSeq(name, LAMBDA ch : ch \notin InvalidChars)

RECURSIVE LStrip(_)
LStrip(s) ==
    IF s # <<>> /\ Head(s) \in Whitespace THEN LStrip(Tail(s)) ELSE s

RECURSIVE RStrip(_)
RStrip(s) ==
    IF s # <<>> /\ s[Len(s)] \in Whitespace
    THEN RStrip(SubSeq(s, 1, Len(s) - 1)) ELSE s

\* str.strip()
Strip(s) == RStrip(LStrip(s))

sanitize_sheet_name(name) ==
    Prefix(Strip(RemoveInvalid(name)), SheetNameLimit)


(***************************************************************************)
(* SheetWriter: what to_excel, write, write_url, set_column, insert_image  *)
(* and set_zoom leave in a worksheet.  A worksheet is its cells (by        *)
(* <<row, column>>, from 0), its column widths, its images and its zoom.   *)
(***************************************************************************)
NewWorksheet == [cells |-> <<>>, widths |-> <<>>, images |-> <<>>, zoom |-> 100]

DurationColumns == <<"D_MachineName", "D_StateDesc", "D_MsgCode", "D_MsgDesc",
                     "Fault_Description", "T_TotalDuration">>

OccurColumns == <<"D_MachineName", "D_StateDesc", "D_MsgCode", "D_MsgDesc",
                  "Fault_Description", "T_TotalOccur">>

IndexColumns == <<"Machine Name", "Sheet Name">>

UniqueFaultsColumns == <<"D_MachineName", "Unique Faults">>

TotalDurationColumns == <<"D_MachineName", "T_TotalDuration">>

NumericColumns == {"T_TotalDuration", "T_TotalOccur", "Unique Faults"}

\* len(col) of a column name.
ColumnNameLen(col) ==
    CASE col = "D_MachineName" -> 13 [] col = "D_StateDesc" -> 11
      [] col = "D_MsgCode" -> 9 [] col = "D_MsgDesc" -> 9
      [] col = "Fault_Description" -> 17 [] col = "T_TotalDuration" -> 15
      [] col = "T_TotalOccur" -> 12 [] col = "Machine Name" -> 12
      [] col = "Sheet Name" -> 10 [] col = "Unique Faults" -> 13

\* len(str(v)) of a whole number.
RECURSIVE NumStrLen(_)
NumStrLen(v) ==
    IF v < 0 THEN 1 + NumStrLen(0 - v)
    ELSE IF v < 10 THEN 1 ELSE 1 + NumStrLen(v \div 10)

CellOf(r, col) ==
    IF col \in NumericColumns THEN [kind |-> "number", v |-> r[col]]
    ELSE [kind |-> "text", v |-> r[col]]

\* frame.to_excel(writer, sheet_name=..., startrow=startrow, index=False):
\* the header in row startrow, the rows of the frame below it.
ToExcel(frame, cols, startrow) ==
    [rc \in (startrow..(startrow + Len(frame))) \X (0..(Len(cols) - 1)) |->
        IF rc[1] = startrow
        THEN [kind |-> "header", v |-> cols[rc[2] + 1]]
        ELSE CellOf(frame[rc[1] - startrow], cols[rc[2] + 1])]

\* auto_adjust_column_widths, lines 33-35: the width of each column; of an
\* empty frame, max() of no lengths is NaN and so is the width.
ColumnWidths(frame, cols) ==
    [idx \in 0..(Len(cols) - 1) |->
        LET col == cols[idx + 1]
            lens == {IF col \in NumericColumns THEN NumStrLen(frame[i][col])
                     ELSE Len(frame[i][col]) : i \in 1..Len(frame)}
        IN  IF lens = {} THEN NumNaN
            ELSE <<Max(lens \cup {ColumnNameLen(col)}) + 2>>]

\* create_bar_chart, lines 38-62: the image of the series frame[label] ->
\* frame[col], with its title and axis labels.
create_bar_chart(frame, col, title, x_label, y_label) ==
    [title |-> title, x_label |-> x_label, y_label |-> y_label,
     bars |-> [i \in 1..Len(frame) |->
                  <<frame[i].Fault_Description, frame[i][col]>>]]

\* The worksheet of lines 125-156 for one machine: ws is the worksheet
\* to_excel found under sheet_name, or a new one.
MachineWorksheet(ws, sheet_name, duration, occurrences) ==
    LET startrow == Len(duration) + OccurGap
        cells1 == ToExcel(duration, DurationColumns, DurationStartRow) @@ ws.cells
        cells2 == ToExcel(occurrences, OccurColumns, startrow) @@ cells1
        cells3 == (<<0, 0>> :> [kind |-> "text",
                                v |-> <<"Total Duration (Top 10)">>]) @@ cells2
        cells4 == (<<startrow - 1, 0>> :>
                      [kind |-> "text",
                       v |-> <<"Total Occurrences (Top 10)">>]) @@ cells3
        duration_image ==
            create_bar_chart(duration, "T_TotalDuration",
                             <<"Top 10 Durations for ">> \o sheet_name,
                             "Fault Description", "Total Duration")
        occurrences_image ==
            create_bar_chart(occurrences, "T_TotalOccur",
                             <<"Top 10 Occurrences for ">> \o sheet_name,
                             "Fault Description", "Total Occurrences")
    IN  [cells |-> cells4,
         widths |-> ColumnWidths(occurrences, OccurColumns)
                    @@ ColumnWidths(duration, DurationColumns) @@ ws.widths,
         images |-> ws.images \o
             <<[row |-> ImageRow, col |-> DurationImageCol,
                filename |-> sheet_name \o <<"_duration.png">>,
                image_data |-> duration_image],
               [row |-> ImageRow, col |-> OccurImageCol,
                filename |-> sheet_name \o <<"_occurrences.png">>,
                image_data |-> occurrences_image]>>,
         zoom |-> Zoom]

\* pd.DataFrame(index_data, columns=['Machine Name', 'Sheet Name'])
IndexFrame(data) ==
    [i \in 1..Len(data) |->
        ("Machine Name" :> data[i][1]) @@ ("Sheet Name" :> data[i][2])]

\* Lines 165-174 and 187-188: the Index worksheet.
IndexWorksheet(data) ==
    LET index_df == IndexFrame(data)
        links == [rc \in {<<i, 1>> : i \in 1..Len(data)} |->
                     [kind |-> "url", v |-> data[rc[1]][2],
                      sheet |-> data[rc[1]][2], cell |-> "A1"]]
        names == [rc \in {<<i, 0>> : i \in 1..Len(data)} |->
                     [kind |-> "text", v |-> data[rc[1]][1]]]
    IN  [cells |-> names @@ links @@ ToExcel(index_df, IndexColumns, 0),
         widths |-> ColumnWidths(index_df, IndexColumns),
         images |-> <<>>,
         zoom |-> Zoom]

\* Lines 177-184 and 189-192: a summary worksheet.
SummaryWorksheet(frame, cols) ==
    [cells |-> ToExcel(frame, cols, 0),
     widths |-> ColumnWidths(frame, cols),
     images |-> <<>>,
     zoom |-> Zoom]

\* xlsxwriter's add_worksheet refuses a name that equals an existing one up
\* to case (DuplicateWorksheetName); to_excel reaches it only for a name
\* get_worksheet_by_name does not find.
DuplicateWorksheetName(sheet_name, names) ==
    /\ sheet_name \notin Range(names)
    /\ \E i \in 1..Len(names) : Lower(names[i]) = Lower(sheet_name)

\* list.index(x)
IndexOf(s, x) == (CHOOSE i \in 1..Len(s) : s[i] = x /\ \A j \in 1..(i - 1) : s[j] # x) - 1

\* Line 201: writer.book.active = writer.book.sheetnames.index('Index')
ActiveAfterReopen(names) == IndexOf(names, <<"Index">>)


(***************************************************************************)
(* The inputs: the rows of faults.csv, as the text of their cells.  A row  *)
(* differs from the base row in at most one cell.  A file is one of        *)
(*   - at most MaxTail rows that vary the machine name, or hold a duration *)
(*     that is no number;                                                  *)
(*   - at most MaxTail rows of one machine that vary the other cells;      *)
(*   - a block of rows of one machine with distinct fault codes, durations *)
(*     and occurrences, enough to come near or reach the ten rows of a     *)
(*     table, followed by at most MaxRankTail rows that vary what decides  *)
(*     the ranking.                                                        *)
(* The machine names all sanitize to a name that is not empty.             *)
(***************************************************************************)
Repeat(ch, n) == [i \in 1..n |-> ch]

\* str(n) for 0 <= n < 100.
ToText(n) ==
    IF n < 10 THEN <<Digits[n + 1]>>
    ELSE <<Digits[(n \div 10) + 1], Digits[(n % 10) + 1]>>

BaseRow ==
    [D_MachineName |-> <<"A">>, D_StateDesc |-> <<"S">>,
     D_MsgCode |-> <<"c", "1">>, D_MsgDesc |-> <<"d">>,
     T_TotalDuration |-> <<"1">>, T_TotalOccur |-> <<"1">>]

LongName(last) == Repeat("A", SheetNameLimit) \o <<last>>

MachineCells ==
    [D_MachineName |-> {<<"B">>, <<"a">>, <<"A", "/">>, <<>>,
                        LongName("A"), LongName("B")},
     T_TotalDuration |-> {<<"x">>}]

OtherCells ==
    [D_StateDesc |-> {<<>>},
     D_MsgCode |-> {<<"c", "0">>, <<>>},
     D_MsgDesc |-> {<<>>},
     T_TotalDuration |-> {<<"0">>, <<"2">>, <<"-", "1">>, <<"x">>},
     T_TotalOccur |-> {<<"2">>, <<"x">>}]

Variants(cells) ==
    {BaseRow} \cup
    UNION {{[BaseRow EXCEPT ![col] = c] : c \in cells[col]} :
              col \in DOMAIN cells}

MachineRows == Variants(MachineCells)

OtherRows == Variants(OtherCells)

RankCells ==
    [D_MachineName |-> {<<"B">>},
     D_MsgCode |-> {<<"c", "0">>},
     T_TotalDuration |-> {<<"0">>, <<"2">>, <<"-", "1">>},
     T_TotalOccur |-> {<<"2">>}]

RankTailRows == Variants(RankCells)

FillerSizes == (TopN - 2)..TopN

FillerRows(n) ==
    [i \in 1..n |->
        [D_MachineName |-> <<"A">>, D_StateDesc |-> <<"S">>,
         D_MsgCode |-> <<"f", Digits[i]>>, D_MsgDesc |-> <<"d">>,
         T_TotalDuration |-> ToText(i + 2), T_TotalOccur |-> ToText(i - 1)]]

SeqsUpTo(S, n) == UNION {[1..k -> S] : k \in 0..n}

ShortFiles == SeqsUpTo(MachineRows, MaxTail) \cup SeqsUpTo(OtherRows, MaxTail)

LongFiles ==
    {FillerRows(n) \o tail :
        n \in FillerSizes, tail \in SeqsUpTo(RankTailRows, MaxRankTail)}

Files == ShortFiles \cup LongFiles

(***************************************************************************)
(* The state.                                                              *)
(***************************************************************************)
VARIABLES
    csv,                                \* faults.csv
    pc,                                 \* where process_faults_file is
    df,                                 \* lines 68-84
    aggregated_df_total_duration,       \* lines 87-89
    aggregated_df_total_occur,          \* lines 91-93
    sorted_unique_faults_per_station,   \* lines 96-97
    sorted_total_duration_per_station,  \* lines 100-101
    unique_machines,                    \* line 111
    index_data,                         \* lines 108, 159
    machine_frames,                     \* the frames of each pass of the loop
    sheetnames,                         \* the workbook's worksheets, in order
    worksheets,                         \* the workbook's worksheets, by name
    file                                \* faults_per_machine.xlsx

vars == <<csv, pc, df, aggregated_df_total_duration, aggregated_df_total_occur,
          sorted_unique_faults_per_station, sorted_total_duration_per_station,
          unique_machines, index_data, machine_frames, sheetnames, worksheets,
          file>>

NoFile == [exists |-> FALSE, sheetnames |-> <<>>, worksheets |-> <<>>,
           active |-> 0]

\* What closing the xlsxwriter workbook stores: its first sheet is active.
Stored(names, sheets) ==
    [exists |-> TRUE, sheetnames |-> names, worksheets |-> sheets, active |-> 0]

Init ==
    /\ csv \in Files
    /\ pc = "start"
    /\ df = <<>>
    /\ aggregated_df_total_duration = <<>>
    /\ aggregated_df_total_occur = <<>>
    /\ sorted_unique_faults_per_station = <<>>
    /\ sorted_total_duration_per_station = <<>>
    /\ unique_machines = <<>>
    /\ index_data = <<>>
    /\ machine_frames = <<>>
    /\ sheetnames = <<>>
    /\ worksheets = <<>>
    /\ file = NoFile

\* Lines 67-84.
Normalize ==
    /\ pc = "start"
    /\ \E keepNA \in BOOLEAN : df' = NormalizeFrame(csv, keepNA)
    /\ pc' = "aggregate"
    /\ UNCHANGED <<csv, aggregated_df_total_duration, aggregated_df_total_occur,
                   sorted_unique_faults_per_station,
                   sorted_total_duration_per_station, unique_machines,
                   index_data, machine_frames, sheetnames, worksheets, file>>

\* Lines 86-111.
Aggregate ==
    /\ pc = "aggregate"
    /\ aggregated_df_total_duration' = GroupSum(df, "T_TotalDuration")
    /\ aggregated_df_total_occur' = GroupSum(df, "T_TotalOccur")
    /\ sorted_unique_faults_per_station' \in
           SortValuesDesc(Range(UniqueFaultsPerStation(df)), "Unique Faults")
    /\ sorted_total_duration_per_station' \in
           SortValuesDesc(
               Range(TotalDurationPerStation(aggregated_df_total_duration')),
               "T_TotalDuration")
    /\ unique_machines' =
           Unique(MachineColumn(aggregated_df_total_duration'), {})
    /\ pc' = "machines"
    /\ UNCHANGED <<csv, df, index_data, machine_frames, sheetnames, worksheets,
                   file>>

\* Lines 114-159: one pass of the loop over unique_machines.  A worksheet
\* name that add_worksheet refuses ends the run: the exception leaves the
\* with block, which closes the workbook on its way out.
WriteMachineSheet ==
    /\ pc = "machines"
    /\ Len(machine_frames) < Len(unique_machines)
    /\ LET machine == unique_machines[Len(machine_frames) + 1]
           sheet_name == sanitize_sheet_name(machine)
       IN  \E machine_df_duration \in
                  TopRows(aggregated_df_total_duration, machine, "T_TotalDuration"),
              machine_df_occurrences \in
                  TopRows(aggregated_df_total_occur, machine, "T_TotalOccur") :
              IF DuplicateWorksheetName(sheet_name, sheetnames)
              THEN /\ pc' = "error"
                   /\ file' = Stored(sheetnames, worksheets)
                   /\ UNCHANGED <<index_data, machine_frames, sheetnames,
                                  worksheets>>
              ELSE LET found == sheet_name \in Range(sheetnames)
                       ws == IF found THEN worksheets[sheet_name]
                             ELSE NewWorksheet
                   IN  /\ sheetnames' = IF found THEN sheetnames
                                        ELSE Append(sheetnames, sheet_name)
                       /\ worksheets' =
                              (sheet_name :>
                                  MachineWorksheet(ws, sheet_name,
                                                   machine_df_duration,
                                                   machine_df_occurrences))
                              @@ worksheets
                       /\ index_data' = Append(index_data, <<machine, sheet_name>>)
                       /\ machine_frames' =
                              Append(machine_frames,
                                     [machine |-> machine,
                                      sheet_name |-> sheet_name,
                                      machine_df_duration |-> machine_df_duration,
                                      machine_df_occurrences |->
                                          machine_df_occurrences,
                                      startrow |->
                                          Len(machine_df_duration) + OccurGap])
                       /\ UNCHANGED <<pc, file>>
    /\ UNCHANGED <<csv, df, aggregated_df_total_duration,
                   aggregated_df_total_occur, sorted_unique_faults_per_station,
                   sorted_total_duration_per_station, unique_machines>>

\* Lines 161-197: the Index, Unique Faults and Total Duration worksheets,
\* and the end of the with block of line 106, which stores the workbook.
WriteSummarySheets ==
    /\ pc = "machines"
    /\ Len(machine_frames) = Len(unique_machines)
    /\ sheetnames' = sheetnames \o
           <<<<"Index">>, <<"Unique Faults">>, <<"Total Duration">>>>
    /\ worksheets' =
           (<<"Index">> :> IndexWorksheet(index_data))
           @@ (<<"Unique Faults">> :>
                  SummaryWorksheet(sorted_unique_faults_per_station,
                                   UniqueFaultsColumns))
           @@ (<<"Total Duration">> :>
                  SummaryWorksheet(sorted_total_duration_per_station,
                                   TotalDurationColumns))
           @@ worksheets
    /\ file' = Stored(sheetnames', worksheets')
    /\ pc' = "reopen"
    /\ UNCHANGED <<csv, df, aggregated_df_total_duration,
                   aggregated_df_total_occur, sorted_unique_faults_per_station,
                   sorted_total_duration_per_station, unique_machines,
                   index_data, machine_frames>>

\* Lines 200-203: the file is loaded, its active sheet set, and saved.
Reopen ==
    /\ pc = "reopen"
    /\ file' = [file EXCEPT !.active = ActiveAfterReopen(file.sheetnames)]
    /\ pc' = "done"
    /\ UNCHANGED <<csv, df, aggregated_df_total_duration,
                   aggregated_df_total_occur, sorted_unique_faults_per_station,
                   sorted_total_duration_per_station, unique_machines,
                   index_data, machine_frames, sheetnames, worksheets>>

Next ==
    \/ Normalize
    \/ Aggregate
    \/ WriteMachineSheet
    \/ WriteSummarySheets
    \/ Reopen

Spec == Init /\ [][Next]_vars

(***************************************************************************)
(* What the claims speak of.                                               *)
(***************************************************************************)
Written == pc \in {"reopen", "done"}

Aggregated == pc \notin {"start", "aggregate"}

\* The retained rows of a machine, and its distinct AggregateKeys.
RowsOf(machine) == {i \in 1..Len(df) : df[i].D_MachineName = machine}

KeysOf(machine) == {Key(df[i]) : i \in RowsOf(machine)}

Machines == {df[i].D_MachineName : i \in 1..Len(df)}

\* The place in df where a key first appears.
FirstSeen(k) == CHOOSE i \in 1..Len(df) :
                    Key(df[i]) = k /\ \A j \in 1..(i - 1) : Key(df[j]) # k

\* A row of faults.csv whose duration or occurrence is no number.
NotNumeric(i) ==
    \/ ToNumeric(ReadCell(csv[i].T_TotalDuration)) = NumNaN
    \/ ToNumeric(ReadCell(csv[i].T_TotalOccur)) = NumNaN

Without(s, i) == SubSeq(s, 1, i - 1) \o SubSeq(s, i + 1, Len(s))

\* The two tables of every pass of the loop, each with its column and the
\* aggregated frame it was taken from.
Tables ==
    {[machine |-> machine_frames[n].machine,
      rows |-> machine_frames[n].machine_df_duration,
      col |-> "T_TotalDuration",
      all |-> Range(OfMachine(aggregated_df_total_duration,
                              machine_frames[n].machine))] :
        n \in 1..Len(machine_frames)}
    \cup
    {[machine |-> machine_frames[n].machine,
      rows |-> machine_frames[n].machine_df_occurrences,
      col |-> "T_TotalOccur",
      all |-> Range(OfMachine(aggregated_df_total_occur,
                              machine_frames[n].machine))] :
        n \in 1..Len(machine_frames)}

LeftOut(t) == t.all \ Range(t.rows)

\* C1: the count the Unique Faults worksheet shows for a machine is the
\* number of distinct AggregateKeys among the retained rows of that machine.
C1_UniqueFaultsCountsKeys ==
    pc = "done" =>
        LET cells == file.worksheets[<<"Unique Faults">>].cells
        IN  \A r \in 1..Cardinality(Machines) :
                cells[<<r, 1>>].v = Cardinality(KeysOf(cells[<<r, 0>>].v))

\* C2: once the run is over, with at least one machine sheet written, the
\* first sheet of the stored workbook is Index.
C2_IndexSheetFirst ==
    (pc = "done" /\ Len(index_data) >= 1) => file.sheetnames[1] = <<"Index">>

\* C3: a row whose duration or occurrence is no number is in no frame: the
\* retained rows, every sum, every per-machine count and total are those of
\* the file without that row, and a machine with no other rows gets no
\* worksheet and no Index entry.
C3_NotNumericRowsDropped ==
    \A i \in 1..Len(csv) :
        NotNumeric(i) =>
            /\ pc # "start" => \A j \in 1..Len(df) : df[j].index # i
            /\ Aggregated =>
                 \E keepNA \in BOOLEAN :
                    LET rest == NormalizeFrame(Without(csv, i), keepNA)
                    IN  /\ aggregated_df_total_duration =
                               GroupSum(rest, "T_TotalDuration")
                        /\ aggregated_df_total_occur =
                               GroupSum(rest, "T_TotalOccur")
                        /\ Range(sorted_unique_faults_per_station) =
                               Range(UniqueFaultsPerStation(rest))
                        /\ Range(sorted_total_duration_per_station) =
                               Range(TotalDurationPerStation(
                                         GroupSum(rest, "T_TotalDuration")))
            /\ Written =>
                 \A keepNA \in BOOLEAN :
                    LET name(j) ==
                            StrColumn(ReadCell(csv[j].D_MachineName), keepNA)
                    IN  (\A j \in 1..Len(csv) :
                            name(j) = name(i) => NotNumeric(j))
                        => /\ \A n \in 1..Len(index_data) :
                                  index_data[n][1] # name(i)
                           /\ \A n \in 1..Len(machine_frames) :
                                  machine_frames[n].machine # name(i)

C3_Witness ==
    /\ pc = "done"
    /\ \E i \in 1..Len(csv) : NotNumeric(i)
    /\ \E i \in 1..Len(csv) : ~NotNumeric(i)
    /\ Len(index_data) >= 1

\* C4: each table of a machine with k distinct keys has min(10, k) rows, all
\* of that machine, no key twice, in non-increasing order of its metric, and
\* no key left out has a metric above the smallest one in the table.
C4_TopTen ==
    \A t \in Tables :
        LET n == Len(t.rows)
        IN  /\ n = Min2(TopN, Cardinality(KeysOf(t.machine)))
            /\ \A i \in 1..n : t.rows[i].D_MachineName = t.machine
            /\ \A i \in 1..n : t.rows[i] \in t.all
            /\ \A i, j \in 1..n : i # j => Key(t.rows[i]) # Key(t.rows[j])
            /\ \A i \in 1..(n - 1) : t.rows[i][t.col] >= t.rows[i + 1][t.col]
            /\ \A r \in LeftOut(t) : r[t.col] <= t.rows[n][t.col]

C4_Witness ==
    \E t \in Tables :
        /\ Cardinality(KeysOf(t.machine)) > TopN
        /\ Len(t.rows) = TopN
        /\ LeftOut(t) # {}

\* C5, as claimed: rows of equal metric are in the order their keys first
\* appear in the retained rows, and of the keys tied at the last place of a
\* full table the ones that appear first are kept.
C5_TiesByFirstSeen ==
    \A t \in Tables :
        /\ \A i, j \in 1..Len(t.rows) :
               (i < j /\ t.rows[i][t.col] = t.rows[j][t.col])
               => FirstSeen(Key(t.rows[i])) < FirstSeen(Key(t.rows[j]))
        /\ \A i \in 1..Len(t.rows) : \A r \in LeftOut(t) :
               r[t.col] = t.rows[i][t.col]
               => FirstSeen(Key(t.rows[i])) < FirstSeen(Key(r))

\* C5, amended: a key whose metric is strictly above that of a row of the
\* table is in the table, before that row; among equal metrics neither the
\* order nor the choice at the cut follows first appearance.
C5_StrictlyGreaterFirst ==
    \A t \in Tables :
        \A j \in 1..Len(t.rows) : \A r \in t.all :
            r[t.col] > t.rows[j][t.col]
            => \E i \in 1..(j - 1) : t.rows[i] = r

C5_Witness ==
    \E t \in Tables :
        /\ Len(t.rows) = TopN
        /\ \E r \in LeftOut(t) : r[t.col] = t.rows[TopN][t.col]
        /\ \E r \in t.all : r[t.col] > t.rows[TopN][t.col]

\* C6: when two machine names sanitize to one sheet name, a run that ends
\* without an error has a worksheet of its own for each machine: the sheet
\* names differ, and each machine's sheet still holds that machine's rows.
C6_NoSilentOverwrite ==
    pc = "done" =>
        \A n \in 1..Len(machine_frames) :
            LET f == machine_frames[n]
                cells == file.worksheets[f.sheet_name].cells
            IN  /\ \A m \in 1..Len(machine_frames) :
                       m # n => machine_frames[m].sheet_name # f.sheet_name
                /\ \A j \in 1..Len(f.machine_df_duration) :
                       /\ cells[<<DurationStartRow + j, 0>>].kind = "text"
                       /\ cells[<<DurationStartRow + j, 0>>].v = f.machine

SumOf(rows, col) == SumColumn(rows, col)

StationTotal(machine) ==
    (CHOOSE r \in Range(sorted_total_duration_per_station) :
        r.D_MachineName = machine).T_TotalDuration

DurationTables == {t \in Tables : t.col = "T_TotalDuration"}

\* C7, as claimed: the durations of a machine's top-10 table sum to at most
\* the machine's total duration, and to exactly it only if the machine has
\* at most 10 keys.
C7_TopSumBelowTotal ==
    Aggregated =>
        \A t \in DurationTables :
            /\ SumOf(t.rows, t.col) <= StationTotal(t.machine)
            /\ SumOf(t.rows, t.col) = StationTotal(t.machine)
               => Cardinality(KeysOf(t.machine)) <= TopN

\* C7, amended: with at most 10 keys the two sums are equal; if no summed
\* duration of the machine is negative the top-10 sum is at most the total,
\* and equal to it exactly when every key left out has a summed duration 0.
C7_TopSumAndTotal ==
    Aggregated =>
        \A t \in DurationTables :
            /\ Cardinality(KeysOf(t.machine)) <= TopN
               => SumOf(t.rows, t.col) = StationTotal(t.machine)
            /\ (\A r \in t.all : r[t.col] >= 0)
               => /\ SumOf(t.rows, t.col) <= StationTotal(t.machine)
                  /\ SumOf(t.rows, t.col) = StationTotal(t.machine)
                     <=> \A r \in LeftOut(t) : r[t.col] = 0

C7_Witness ==
    /\ Aggregated
    /\ \E t \in DurationTables :
          /\ Cardinality(KeysOf(t.machine)) > TopN
          /\ \A r \in t.all : r[t.col] >= 0
          /\ SumOf(t.rows, t.col) = StationTotal(t.machine)

TextColumns == {"D_MachineName", "D_StateDesc", "D_MsgDesc", "D_MsgCode"}

Missing(j, col) == ReadCell(csv[df[j].index][col]) = NaN

\* C8: a retained row with a missing machine name, state description,
\* message description or message code holds "Unknown" there, and its fault
\* description is built from it.
C8_MissingBecomesUnknown ==
    pc # "start" =>
        \A j \in 1..Len(df) :
            /\ \A col \in TextColumns : Missing(j, col) => df[j][col] = Unknown
            /\ Missing(j, "D_MsgDesc")
               => df[j].Fault_Description =
                      FaultDescription(Unknown, df[j].D_MsgCode)
            /\ Missing(j, "D_MsgCode")
               => df[j].Fault_Description =
                      FaultDescription(df[j].D_MsgDesc, Unknown)

IndexMachines == [n \in 1..Len(index_data) |-> index_data[n][1]]

\* The rows of the stored Index worksheet: one per entry of index_data, the
\* machine name and a link to cell A1 of the sheet of that entry.
IndexRowsLink ==
    LET cells == file.worksheets[<<"Index">>].cells
    IN  \A n \in 1..Len(index_data) :
            /\ cells[<<n, 0>>].kind = "text"
            /\ cells[<<n, 0>>].v = index_data[n][1]
            /\ cells[<<n, 1>>].kind = "url"
            /\ cells[<<n, 1>>].sheet = sanitize_sheet_name(index_data[n][1])
            /\ cells[<<n, 1>>].cell = "A1"
            /\ cells[<<n, 1>>].sheet \in Range(file.sheetnames)
            /\ machine_frames[n].machine = index_data[n][1]
            /\ machine_frames[n].sheet_name = cells[<<n, 1>>].sheet

OnePerMachine ==
    /\ Len(index_data) = Cardinality(Machines)
    /\ Range(IndexMachines) = Machines

\* C9, as claimed: the machine sheets are written and the Index rows listed
\* in the order the machine names first appear in the retained rows, one row
\* per machine, linked to cell A1 of the machine's sheet.
C9_FirstSeenOrder ==
    pc = "done" =>
        /\ IndexMachines = Unique(MachineColumn(df), {})
        /\ OnePerMachine
        /\ IndexRowsLink

\* C9, amended: they are in ascending order of the machine name (by code
\* point), one row per machine, linked to cell A1 of the sheet named by the
\* sanitized machine name.
C9_AscendingNameOrder ==
    pc = "done" =>
        /\ \A n \in 1..(Len(index_data) - 1) :
               StrLess(index_data[n][1], index_data[n + 1][1])
        /\ OnePerMachine
        /\ IndexRowsLink

C9_Witness ==
    /\ pc = "done"
    /\ Len(index_data) >= 2
    /\ IndexMachines # Unique(MachineColumn(df), {})

\* C10: on a machine sheet the title of the occurrence table is below the
\* last row of the duration table, and both images are anchored below the
\* last row of the occurrence table.
C10_ImagesBelowTables ==
    \A n \in 1..Len(machine_frames) :
        LET f == machine_frames[n]
            duration_last == DurationStartRow + Len(f.machine_df_duration)
            occurrences_last == f.startrow + Len(f.machine_df_occurrences)
            images == worksheets[f.sheet_name].images
        IN  /\ f.startrow - 1 > duration_last
            /\ \A k \in 1..Len(images) : images[k].row > occurrences_last

=============================================================================
